---- MODULE Spec2Model ----
(***************************************************************************)
(* State-machine model of the staking-pool program                         *)
(* (programs/staking-pool/src/lib.rs).                                     *)
(*                                                                         *)
(* One pool account, a fixed set of users, and the token ledger the        *)
(* program calls into.  Every instruction is one action: the account       *)
(* validation declared by its #[derive(Accounts)] struct, then its         *)
(* handler, then the runtime's commit (Ok) or rollback (Err) of the        *)
(* account changes.                                                        *)
(***************************************************************************)
EXTENDS Integers, Sequences, FiniteSets, TLC

VARIABLES pool, users, bal, last, rt

vars == <<pool, users, bal, last, rt>>

(***************************************************************************)
(* Bounds and program constants                                            *)
(***************************************************************************)

\* Stand-in for u64::MAX: the width of staked_total, staked_amount, the
\* instruction amounts and the ledger's balances and supply, scaled down.
U64_MAX == 2

\* u8::MAX, where find_program_address starts its search for the bump.
MaxBump == 255

INIT_MAGIC_NUMBER == 26214

Amounts == 0..U64_MAX

Nonces == {MaxBump - 1, MaxBump}

(***************************************************************************)
(* Identities                                                              *)
(***************************************************************************)

Users == {"u1", "u2"}

PoolKey == "P"

Mints == {"M1", "M2"}

DefaultKey == "default"

\* Pubkey::create_program_address: the address is a collision-free function
\* of the seeds; some seed/bump combinations fall on the curve and are no
\* program address.
IsOnCurve(mint, poolkey, bump) == mint = "M1" /\ bump = MaxBump

create_program_address(mint, poolkey, bump) ==
    IF IsOnCurve(mint, poolkey, bump)
    THEN "invalid"
    ELSE "pda:" \o mint \o ":" \o poolkey \o ":" \o ToString(bump)

RECURSIVE find_bump(_, _, _)
find_bump(mint, poolkey, bump) ==
    IF bump = 0 \/ ~IsOnCurve(mint, poolkey, bump)
    THEN bump
    ELSE find_bump(mint, poolkey, bump - 1)

\* Pubkey::find_program_address: the first bump, counting down from 255,
\* that yields a program address.
find_program_address(mint, poolkey) ==
    LET b == find_bump(mint, poolkey, MaxBump)
    IN  [key |-> create_program_address(mint, poolkey, b), nonce |-> b]

PDA1 == find_program_address("M1", PoolKey).key

\* A key that is no program address of this program and signs nothing.
Foreign == "F"

(***************************************************************************)
(* The token ledger's accounts.  Mint, owner and authorities are fixed;    *)
(* only the balances move.                                                 *)
(***************************************************************************)

TokenAccounts == {"A1", "A2", "B1", "V1", "V2"}

Vaults == {"V1", "V2"}

\* The token accounts a user presents as its own: its account of M1, and
\* u1's account of M2.
UserAcc(u) == IF u = "u1" THEN "A1" ELSE "A2"

UserAccs(u) == {UserAcc(u), "B1"}

TokenMint(acc) ==
    CASE acc \in {"A1", "A2", "V1"} -> "M1"
      [] OTHER -> "M2"

TokenOwner(acc) ==
    CASE acc \in {"A1", "B1"} -> "u1"
      [] acc = "A2" -> "u2"
      [] acc = "V1" -> PDA1
      [] OTHER -> Foreign

MintAuthority(mint) == IF mint = "M1" THEN PDA1 ELSE Foreign

FreezeAuthority(mint) == "u1"

RECURSIVE SumBal(_, _)
SumBal(b, accs) ==
    IF accs = {} THEN 0
    ELSE LET a == CHOOSE x \in accs : TRUE
         IN  b[a] + SumBal(b, accs \ {a})

Supply(b, mint) == SumBal(b, {a \in TokenAccounts : TokenMint(a) = mint})


(***************************************************************************)
(* Checked arithmetic (anchor_safe_math::SafeMath on u64)                  *)
(***************************************************************************)

\* Mutant of safe_add: a counter one narrower than the ledger's amounts.
safe_add_narrower(x, y) ==
    IF x + y > U64_MAX - 1 THEN [ok |-> FALSE, v |-> x] ELSE [ok |-> TRUE, v |-> x + y]

safe_add(x, y) ==
    IF x + y > U64_MAX THEN [ok |-> FALSE, v |-> x] ELSE [ok |-> TRUE, v |-> x + y]

\* Mutants of safe_sub: a wrapping and a saturating subtraction.
safe_sub_wrapping(x, y) == [ok |-> TRUE, v |-> (x - y) % (U64_MAX + 1)]

safe_sub_saturating(x, y) == [ok |-> TRUE, v |-> IF x < y THEN 0 ELSE x - y]

safe_sub(x, y) ==
    IF x < y THEN [ok |-> FALSE, v |-> x] ELSE [ok |-> TRUE, v |-> x - y]

(***************************************************************************)
(* The token program's instructions, as reached through a CPI.  `signed`   *)
(* is the set of keys the runtime accepts as signers of the inner          *)
(* instruction: the signers of the transaction and the program addresses   *)
(* reproduced from the seeds handed to invoke_signed.                      *)
(***************************************************************************)

token_transfer(b, from, to, authority, signed, amount) ==
    IF authority \notin signed THEN [res |-> "PrivilegeEscalation", bal |-> b]
    ELSE IF b[from] < amount THEN [res |-> "InsufficientFunds", bal |-> b]
    ELSE IF TokenMint(from) # TokenMint(to) THEN [res |-> "MintMismatch", bal |-> b]
    ELSE IF TokenOwner(from) # authority THEN [res |-> "OwnerMismatch", bal |-> b]
    ELSE IF from = to THEN [res |-> "Ok", bal |-> b]
    ELSE IF b[to] + amount > U64_MAX THEN [res |-> "Overflow", bal |-> b]
    ELSE [res |-> "Ok",
          bal |-> [b EXCEPT ![from] = b[from] - amount, ![to] = b[to] + amount]]

token_mint_to(b, mint, to, authority, signed, amount) ==
    IF authority \notin signed THEN [res |-> "PrivilegeEscalation", bal |-> b]
    ELSE IF TokenMint(to) # mint THEN [res |-> "MintMismatch", bal |-> b]
    ELSE IF MintAuthority(mint) # authority THEN [res |-> "OwnerMismatch", bal |-> b]
    ELSE IF b[to] + amount > U64_MAX THEN [res |-> "Overflow", bal |-> b]
    ELSE IF Supply(b, mint) + amount > U64_MAX THEN [res |-> "Overflow", bal |-> b]
    ELSE [res |-> "Ok", bal |-> [b EXCEPT ![to] = b[to] + amount]]

\* The keys invoke_signed accepts as signers: the transaction's signer and
\* the program address reproduced from the seeds (mint, pool, [nonce]).
SignedWithSeeds(authority, seedMint, seedPool, nonce) ==
    {authority, create_program_address(seedMint, seedPool, nonce)} \ {"invalid"}

(***************************************************************************)
(* Records                                                                 *)
(***************************************************************************)

\* Pool: the zero_copy account.  disc is the 8-byte account discriminator
\* in front of it ("zero" until an instruction that loaded it exits Ok).
ZeroedPool ==
    [disc |-> "zero", magic |-> 0, program_signer |-> DefaultKey, mint |-> DefaultKey,
     vault |-> DefaultKey, staked_total |-> 0, nonce |-> 0]

\* UserState: exists is whether the account at the address derived from
\* (pool, user) has been created.
NoUserState == [exists |-> FALSE, initialized |-> FALSE, staked_amount |-> 0]

NoArgs ==
    [authority |-> "none", amount |-> 0, nonce |-> 0, mint |-> "none", vault |-> "none",
     program_signer |-> "none", user_mint_acc |-> "none"]

Fail(S, e, cpi) ==
    [res |-> e, pool |-> S.pool, users |-> S.users, bal |-> S.bal, cpi |-> cpi]

Call(instr, authority, r) == [instr |-> instr, authority |-> authority, res |-> r]

(***************************************************************************)
(* Account validation: what the #[derive(Accounts)] struct requires        *)
(* before the handler runs.  "Ok" or the error of the first failed         *)
(* requirement.                                                            *)
(***************************************************************************)

\* Mutant of Initialize: the pool account is taken as mut, not zero.
Initialize_unchecked_zero(S, a) ==
    IF ~(MintAuthority(a.mint) = a.program_signer
         /\ FreezeAuthority(a.mint) = a.authority) THEN "ConstraintRaw"
    ELSE IF ~(TokenMint(a.vault) = a.mint /\ TokenOwner(a.vault) = a.program_signer)
         THEN "InvalidVault"
    ELSE "Ok"

Initialize(S, a) ==
    IF S.pool.disc # "zero" THEN "ConstraintZero"
    ELSE IF ~(MintAuthority(a.mint) = a.program_signer
              /\ FreezeAuthority(a.mint) = a.authority) THEN "ConstraintRaw"
    ELSE IF ~(TokenMint(a.vault) = a.mint /\ TokenOwner(a.vault) = a.program_signer)
         THEN "InvalidVault"
    ELSE "Ok"

\* Mutant of AirDrop: the destination's owner is not constrained.
AirDrop_unchecked_owner(S, a) ==
    IF S.pool.disc # "Pool" THEN "AccountDiscriminatorMismatch" ELSE "Ok"

AirDrop(S, a) ==
    IF S.pool.disc # "Pool" THEN "AccountDiscriminatorMismatch"
    ELSE IF TokenOwner(a.user_mint_acc) # a.authority THEN "ConstraintRaw"
    ELSE "Ok"

\* Mutant of InitializeUserState: init_if_needed in place of init.
InitializeUserState_if_needed(S, a) == "Ok"

InitializeUserState(S, a) ==
    IF S.users[a.authority].exists THEN "AccountAlreadyInUse" ELSE "Ok"

\* Mutant of EnterStaking: user_state taken unchecked, whether or not the
\* account exists.
EnterStaking_unchecked_user(S, a) ==
    IF S.pool.disc # "Pool" THEN "AccountDiscriminatorMismatch"
    ELSE IF ~(TokenOwner(a.user_mint_acc) = a.authority
              /\ TokenMint(a.user_mint_acc) = a.mint) THEN "ConstraintRaw"
    ELSE "Ok"

EnterStaking(S, a) ==
    IF S.pool.disc # "Pool" THEN "AccountDiscriminatorMismatch"
    ELSE IF ~S.users[a.authority].exists THEN "AccountNotInitialized"
    ELSE IF ~(TokenOwner(a.user_mint_acc) = a.authority
              /\ TokenMint(a.user_mint_acc) = a.mint) THEN "ConstraintRaw"
    ELSE "Ok"

LeaveStaking(S, a) ==
    IF S.pool.disc # "Pool" THEN "AccountDiscriminatorMismatch"
    ELSE IF ~S.users[a.authority].exists THEN "AccountNotInitialized"
    ELSE IF ~(TokenOwner(a.user_mint_acc) = a.authority
              /\ TokenMint(a.user_mint_acc) = a.mint) THEN "ConstraintRaw"
    ELSE "Ok"

(***************************************************************************)
(* Handlers.  Each returns the result and the accounts as the handler      *)
(* left them, together with the ledger instructions it issued.             *)
(***************************************************************************)

\* Mutant of InitializedPool: the vault is not recorded.
InitializedPool_no_vault(p, a, program_signer) ==
    [p EXCEPT !.disc = "Pool",
              !.magic = INIT_MAGIC_NUMBER,
              !.mint = a.mint,
              !.program_signer = program_signer,
              !.nonce = a.nonce]

\* The pool record as handle_initialize writes it (and as the exit of the
\* instruction stamps its discriminator).  staked_total is not written.
InitializedPool(p, a, program_signer) ==
    [p EXCEPT !.disc = "Pool",
              !.magic = INIT_MAGIC_NUMBER,
              !.mint = a.mint,
              !.vault = a.vault,
              !.program_signer = program_signer,
              !.nonce = a.nonce]

\* Mutant of handle_initialize: the two comparisons joined by "or".
handle_initialize_either(S, a) ==
    LET d == find_program_address(a.mint, PoolKey)
    IN  IF ~(a.nonce = d.nonce \/ a.program_signer = d.key)
        THEN Fail(S, "InvalidProgramSigner", <<>>)
        ELSE [res |-> "Ok", pool |-> InitializedPool(S.pool, a, d.key),
              users |-> S.users, bal |-> S.bal, cpi |-> <<>>]

handle_initialize(S, a) ==
    LET d == find_program_address(a.mint, PoolKey)
    IN  IF ~(a.nonce = d.nonce /\ a.program_signer = d.key)
        THEN Fail(S, "InvalidProgramSigner", <<>>)
        ELSE [res |-> "Ok", pool |-> InitializedPool(S.pool, a, d.key),
              users |-> S.users, bal |-> S.bal, cpi |-> <<>>]

\* Mutant of handle_airdrop: the amount is required to be positive, as in
\* the staking handlers.
handle_airdrop_require_amount(S, a) ==
    IF ~(a.amount > 0) THEN Fail(S, "ZeroAmount", <<>>)
    ELSE IF S.pool.mint # a.mint THEN Fail(S, "InvalidMint", <<>>)
    ELSE IF S.pool.program_signer # a.program_signer
         THEN Fail(S, "InvalidProgramSigner", <<>>)
    ELSE IF S.pool.mint # TokenMint(a.user_mint_acc)
         THEN Fail(S, "InvalidUserMintAccount", <<>>)
    ELSE LET signed == SignedWithSeeds(a.authority, S.pool.mint, PoolKey, S.pool.nonce)
             t == token_mint_to(S.bal, a.mint, a.user_mint_acc, a.program_signer,
                                signed, a.amount)
         IN  [res |-> t.res, pool |-> S.pool, users |-> S.users, bal |-> t.bal,
              cpi |-> <<Call("mint_to", a.program_signer, t.res)>>]

\* Mutant of handle_airdrop: the destination's mint is left to the ledger.
handle_airdrop_unchecked_destination(S, a) ==
    IF S.pool.mint # a.mint THEN Fail(S, "InvalidMint", <<>>)
    ELSE IF S.pool.program_signer # a.program_signer
         THEN Fail(S, "InvalidProgramSigner", <<>>)
    ELSE LET signed == SignedWithSeeds(a.authority, S.pool.mint, PoolKey, S.pool.nonce)
             t == token_mint_to(S.bal, a.mint, a.user_mint_acc, a.program_signer,
                                signed, a.amount)
         IN  [res |-> t.res, pool |-> S.pool, users |-> S.users, bal |-> t.bal,
              cpi |-> <<Call("mint_to", a.program_signer, t.res)>>]

\* The signer seeds handle_airdrop builds: the recorded mint, the pool
\* account's key and the recorded nonce.
airdrop_seeds(S, a) == [mint |-> S.pool.mint, pool |-> PoolKey, nonce |-> S.pool.nonce]

handle_airdrop(S, a) ==
    IF S.pool.mint # a.mint THEN Fail(S, "InvalidMint", <<>>)
    ELSE IF S.pool.program_signer # a.program_signer
         THEN Fail(S, "InvalidProgramSigner", <<>>)
    ELSE IF S.pool.mint # TokenMint(a.user_mint_acc)
         THEN Fail(S, "InvalidUserMintAccount", <<>>)
    ELSE LET sd == airdrop_seeds(S, a)
             signed == SignedWithSeeds(a.authority, sd.mint, sd.pool, sd.nonce)
             t == token_mint_to(S.bal, a.mint, a.user_mint_acc, a.program_signer,
                                signed, a.amount)
         IN  [res |-> t.res, pool |-> S.pool, users |-> S.users, bal |-> t.bal,
              cpi |-> <<Call("mint_to", a.program_signer, t.res)>>]

handle_initialize_user_state(S, a) ==
    [res |-> "Ok", pool |-> S.pool,
     users |-> [S.users EXCEPT ![a.authority] =
                   [exists |-> TRUE, initialized |-> TRUE, staked_amount |-> 0]],
     bal |-> S.bal, cpi |-> <<>>]

\* Mutant of enter_staking_require: the amount is not checked.
enter_staking_require_any_amount(S, a) ==
    IF S.pool.mint # a.mint THEN "InvalidMint"
    ELSE IF S.pool.vault # a.vault THEN "InvalidVault"
    ELSE IF ~S.users[a.authority].initialized THEN "UserNotInitialized"
    ELSE "Ok"

\* The four require! checks of handle_enter_staking, in their order.
enter_staking_require(S, a) ==
    IF ~(a.amount > 0) THEN "ZeroAmount"
    ELSE IF S.pool.mint # a.mint THEN "InvalidMint"
    ELSE IF S.pool.vault # a.vault THEN "InvalidVault"
    ELSE IF ~S.users[a.authority].initialized THEN "UserNotInitialized"
    ELSE "Ok"

\* Mutant of enter_staking_commit: the user's counter is set from the
\* pool's new total.
enter_staking_commit_from_total(S, a, b, cpi) ==
    LET total == safe_add(S.pool.staked_total, a.amount)
    IN  IF ~total.ok
        THEN [res |-> "Overflow", pool |-> S.pool, users |-> S.users, bal |-> b,
              cpi |-> cpi]
        ELSE [res |-> "Ok", pool |-> [S.pool EXCEPT !.staked_total = total.v],
              users |-> [S.users EXCEPT ![a.authority].staked_amount = total.v],
              bal |-> b, cpi |-> cpi]

\* The two checked additions after the transfer: the pool's counter is
\* assigned before the user's addition is attempted.
enter_staking_commit(S, a, b, cpi) ==
    LET total == safe_add(S.pool.staked_total, a.amount)
        staked == safe_add(S.users[a.authority].staked_amount, a.amount)
        pool1 == [S.pool EXCEPT !.staked_total = total.v]
    IN  IF ~total.ok
        THEN [res |-> "Overflow", pool |-> S.pool, users |-> S.users, bal |-> b,
              cpi |-> cpi]
        ELSE IF ~staked.ok
        THEN [res |-> "Overflow", pool |-> pool1, users |-> S.users, bal |-> b,
              cpi |-> cpi]
        ELSE [res |-> "Ok", pool |-> pool1,
              users |-> [S.users EXCEPT ![a.authority].staked_amount = staked.v],
              bal |-> b, cpi |-> cpi]

\* Mutant of handle_enter_staking: the counters are updated before the
\* transfer is requested.
handle_enter_staking_commit_first(S, a) ==
    LET c == enter_staking_require(S, a)
        t == token_transfer(S.bal, a.user_mint_acc, a.vault, a.authority,
                            {a.authority}, a.amount)
        cpi == <<Call("transfer", a.authority, t.res)>>
        m == enter_staking_commit(S, a, S.bal, <<>>)
    IN  IF c # "Ok" THEN Fail(S, c, <<>>)
        ELSE IF m.res # "Ok" THEN m
        ELSE [m EXCEPT !.res = t.res, !.bal = t.bal, !.cpi = cpi]

handle_enter_staking(S, a) ==
    LET c == enter_staking_require(S, a)
        t == token_transfer(S.bal, a.user_mint_acc, a.vault, a.authority,
                            {a.authority}, a.amount)
        cpi == <<Call("transfer", a.authority, t.res)>>
    IN  IF c # "Ok" THEN Fail(S, c, <<>>)
        ELSE IF t.res # "Ok" THEN Fail(S, t.res, cpi)
        ELSE enter_staking_commit(S, a, t.bal, cpi)

\* Mutant of leave_staking_require: the mint is compared before the amount.
leave_staking_require_mint_first(S, a) ==
    IF S.pool.mint # a.mint THEN "InvalidMint"
    ELSE IF ~(a.amount > 0) THEN "ZeroAmount"
    ELSE IF S.pool.vault # a.vault THEN "InvalidVault"
    ELSE IF ~S.users[a.authority].initialized THEN "UserNotInitialized"
    ELSE "Ok"

\* Mutant of leave_staking_require: the presented mint is not compared.
leave_staking_require_any_mint(S, a) ==
    IF ~(a.amount > 0) THEN "ZeroAmount"
    ELSE IF S.pool.vault # a.vault THEN "InvalidVault"
    ELSE IF ~S.users[a.authority].initialized THEN "UserNotInitialized"
    ELSE "Ok"

\* The four require! checks of handle_leave_staking, in their order.
leave_staking_require(S, a) ==
    IF ~(a.amount > 0) THEN "ZeroAmount"
    ELSE IF S.pool.mint # a.mint THEN "InvalidMint"
    ELSE IF S.pool.vault # a.vault THEN "InvalidVault"
    ELSE IF ~S.users[a.authority].initialized THEN "UserNotInitialized"
    ELSE "Ok"

\* Mutant of leave_staking_commit: the user's counter is not updated.
leave_staking_commit_pool_only(S, a, b, cpi) ==
    LET total == safe_sub(S.pool.staked_total, a.amount)
    IN  IF ~total.ok
        THEN [res |-> "Underflow", pool |-> S.pool, users |-> S.users, bal |-> b,
              cpi |-> cpi]
        ELSE [res |-> "Ok", pool |-> [S.pool EXCEPT !.staked_total = total.v],
              users |-> S.users, bal |-> b, cpi |-> cpi]

\* The two checked subtractions after the transfer: the pool's counter is
\* assigned before the user's subtraction is attempted.
leave_staking_commit(S, a, b, cpi) ==
    LET total == safe_sub(S.pool.staked_total, a.amount)
        staked == safe_sub(S.users[a.authority].staked_amount, a.amount)
        pool1 == [S.pool EXCEPT !.staked_total = total.v]
    IN  IF ~total.ok
        THEN [res |-> "Underflow", pool |-> S.pool, users |-> S.users, bal |-> b,
              cpi |-> cpi]
        ELSE IF ~staked.ok
        THEN [res |-> "Underflow", pool |-> pool1, users |-> S.users, bal |-> b,
              cpi |-> cpi]
        ELSE [res |-> "Ok", pool |-> pool1,
              users |-> [S.users EXCEPT ![a.authority].staked_amount = staked.v],
              bal |-> b, cpi |-> cpi]

\* The transfer's authority is the presented program_signer account; the
\* seeds are the presented mint, the pool's key and the recorded nonce.
leave_staking_seeds(S, a) == [mint |-> a.mint, pool |-> PoolKey, nonce |-> S.pool.nonce]

handle_leave_staking(S, a) ==
    LET c == leave_staking_require(S, a)
        sd == leave_staking_seeds(S, a)
        signed == SignedWithSeeds(a.authority, sd.mint, sd.pool, sd.nonce)
        t == token_transfer(S.bal, a.vault, a.user_mint_acc, a.program_signer,
                            signed, a.amount)
        cpi == <<Call("transfer", a.program_signer, t.res)>>
    IN  IF c # "Ok" THEN Fail(S, c, <<>>)
        ELSE IF t.res # "Ok" THEN Fail(S, t.res, cpi)
        ELSE leave_staking_commit(S, a, t.bal, cpi)

(***************************************************************************)
(* Instructions: account validation, then the handler.                     *)
(***************************************************************************)

Validate(op, S, a) ==
    CASE op = "initialize" -> Initialize(S, a)
      [] op = "airdrop" -> AirDrop(S, a)
      [] op = "initialize_user_state" -> InitializeUserState(S, a)
      [] op = "enter_staking" -> EnterStaking(S, a)
      [] op = "leave_staking" -> LeaveStaking(S, a)

Handle(op, S, a) ==
    CASE op = "initialize" -> handle_initialize(S, a)
      [] op = "airdrop" -> handle_airdrop(S, a)
      [] op = "initialize_user_state" -> handle_initialize_user_state(S, a)
      [] op = "enter_staking" -> handle_enter_staking(S, a)
      [] op = "leave_staking" -> handle_leave_staking(S, a)

\* The instruction as the program leaves the accounts, before the runtime
\* decides what persists.
Invoke(op, S, a) ==
    LET v == Validate(op, S, a)
    IN  IF v # "Ok" THEN Fail(S, v, <<>>) ELSE Handle(op, S, a)

\* An instruction that returns Err aborts the transaction: none of its
\* account changes, in this program or in the ledger, persist.
\* Mutant of Commit: the accounts persist as the handler left them.
Commit_keeps_changes(S, r) == r

Commit(S, r) == IF r.res = "Ok" THEN r ELSE Fail(S, r.res, r.cpi)

Execute(op, S, a) == Commit(S, Invoke(op, S, a))

\* The accounts of a result, as a state.
StateOf(r) == [pool |-> r.pool, users |-> r.users, bal |-> r.bal]

(***************************************************************************)
(* The inputs of each instruction                                          *)
(***************************************************************************)

InitializeArgs ==
    {[NoArgs EXCEPT !.authority = u, !.nonce = nonce, !.mint = mint, !.vault = vault,
                    !.program_signer = signer] :
        u \in Users, nonce \in Nonces, mint \in Mints, vault \in Vaults,
        signer \in {PDA1, Foreign}}

AirDropArgs ==
    UNION {{[NoArgs EXCEPT !.authority = u, !.amount = amount, !.mint = mint,
                           !.user_mint_acc = acc, !.program_signer = signer] :
               amount \in Amounts, mint \in Mints, acc \in UserAccs(u),
               signer \in {PDA1, Foreign}} : u \in Users}

InitializeUserStateArgs == {[NoArgs EXCEPT !.authority = u] : u \in Users}

EnterStakingArgs ==
    UNION {{[NoArgs EXCEPT !.authority = u, !.amount = amount, !.mint = mint,
                           !.vault = vault, !.user_mint_acc = acc] :
               amount \in Amounts, mint \in Mints, vault \in Vaults,
               acc \in UserAccs(u)} : u \in Users}

LeaveStakingArgs ==
    UNION {{[NoArgs EXCEPT !.authority = u, !.amount = amount, !.mint = mint,
                           !.vault = vault, !.user_mint_acc = acc,
                           !.program_signer = signer] :
               amount \in Amounts, mint \in Mints, vault \in Vaults,
               acc \in UserAccs(u), signer \in {PDA1, Foreign, u}} : u \in Users}

(***************************************************************************)
(* The state machine                                                       *)
(***************************************************************************)

Cur == [pool |-> pool, users |-> users, bal |-> bal]

\* The last instruction: which, by whom, for what amount, the program
\* signer it presented, how it ended and the ledger instructions it issued.
NoLast ==
    [op |-> "none", authority |-> "none", amount |-> 0, program_signer |-> "none",
     res |-> "none", cpi |-> <<>>]

LastOf(op, a, r) ==
    [op |-> op, authority |-> a.authority, amount |-> a.amount,
     program_signer |-> a.program_signer, res |-> r.res, cpi |-> r.cpi]

\* Follows a successful enter_staking(a) directly followed by a successful
\* leave_staking(a) of the same user, keeping the two counters as they were
\* before the enter_staking.
NoRoundTrip ==
    [phase |-> "idle", authority |-> "none", amount |-> 0, staked_total |-> 0,
     staked_amount |-> 0]

RoundTripOf(op, a, r) ==
    IF op = "enter_staking" /\ r.res = "Ok"
    THEN [phase |-> "entered", authority |-> a.authority, amount |-> a.amount,
          staked_total |-> pool.staked_total,
          staked_amount |-> users[a.authority].staked_amount]
    ELSE IF /\ op = "leave_staking" /\ r.res = "Ok" /\ rt.phase = "entered"
            /\ rt.authority = a.authority /\ rt.amount = a.amount
    THEN [rt EXCEPT !.phase = "left"]
    ELSE NoRoundTrip

initialize ==
    \E a \in InitializeArgs :
      \E r \in {Execute("initialize", Cur, a)} :
        /\ pool' = r.pool
        /\ users' = r.users
        /\ bal' = r.bal
        /\ last' = LastOf("initialize", a, r)
        /\ rt' = RoundTripOf("initialize", a, r)

airdrop ==
    \E a \in AirDropArgs :
      \E r \in {Execute("airdrop", Cur, a)} :
        /\ pool' = r.pool
        /\ users' = r.users
        /\ bal' = r.bal
        /\ last' = LastOf("airdrop", a, r)
        /\ rt' = RoundTripOf("airdrop", a, r)

initialize_user_state ==
    \E a \in InitializeUserStateArgs :
      \E r \in {Execute("initialize_user_state", Cur, a)} :
        /\ pool' = r.pool
        /\ users' = r.users
        /\ bal' = r.bal
        /\ last' = LastOf("initialize_user_state", a, r)
        /\ rt' = RoundTripOf("initialize_user_state", a, r)

enter_staking ==
    \E a \in EnterStakingArgs :
      \E r \in {Execute("enter_staking", Cur, a)} :
        /\ pool' = r.pool
        /\ users' = r.users
        /\ bal' = r.bal
        /\ last' = LastOf("enter_staking", a, r)
        /\ rt' = RoundTripOf("enter_staking", a, r)

leave_staking ==
    \E a \in LeaveStakingArgs :
      \E r \in {Execute("leave_staking", Cur, a)} :
        /\ pool' = r.pool
        /\ users' = r.users
        /\ bal' = r.bal
        /\ last' = LastOf("leave_staking", a, r)
        /\ rt' = RoundTripOf("leave_staking", a, r)

\* A pool account as the system program allocates it: every byte zero.
Init ==
    /\ pool = ZeroedPool
    /\ users = [u \in Users |-> NoUserState]
    /\ bal = [acc \in TokenAccounts |-> 0]
    /\ last = NoLast
    /\ rt = NoRoundTrip

Next ==
    \/ initialize
    \/ airdrop
    \/ initialize_user_state
    \/ enter_staking
    \/ leave_staking

Spec == Init /\ [][Next]_vars

\* #[account(zero)] looks at the 8 discriminator bytes only.  InitRaw is
\* every pool account it admits: a zero discriminator in front of a
\* staked_total field of any content.
InitRaw ==
    /\ pool \in {[ZeroedPool EXCEPT !.staked_total = n] : n \in {0, U64_MAX}}
    /\ users = [u \in Users |-> NoUserState]
    /\ bal = [acc \in TokenAccounts |-> 0]
    /\ last = NoLast
    /\ rt = NoRoundTrip

SpecRaw == InitRaw /\ [][Next]_vars

(***************************************************************************)
(* Properties                                                              *)
(***************************************************************************)

RECURSIVE SumStaked(_, _)
SumStaked(us, S) ==
    IF S = {} THEN 0
    ELSE LET u == CHOOSE x \in S : TRUE
         IN  us[u].staked_amount + SumStaked(us, S \ {u})

\* A leave_staking whose accounts are the ones the pool records and the
\* caller owns.
WellFormedLeave(a) ==
    /\ a.mint = pool.mint
    /\ a.vault = pool.vault
    /\ a.program_signer = pool.program_signer
    /\ a.user_mint_acc = UserAcc(a.authority)

\* C1: in every reachable state, whatever instructions succeeded or failed
\* before it, Pool.staked_total is the sum of the staked_amount of all users.
C1_StakedTotalIsSum == pool.staked_total = SumStaked(users, Users)

\* C1 witness: both users hold stake and the last instruction was a
\* leave_staking that failed after its ledger transfer had gone through.
C1_Witness ==
    /\ \A u \in Users : users[u].staked_amount > 0
    /\ last.op = "leave_staking" /\ last.res = "Underflow"
    /\ pool.staked_total = SumStaked(users, Users)

\* C2: leave_staking of more than the caller's staked_amount fails and leaves
\* every user record and the pool record as they were; with the accounts the
\* pool records, the failure is the ledger's insufficient balance or the
\* arithmetic underflow.
C2_OverdrawFails ==
    \A a \in LeaveStakingArgs :
        (users[a.authority].initialized
         /\ a.amount > users[a.authority].staked_amount) =>
            \A r \in {Execute("leave_staking", Cur, a)} :
                /\ r.res # "Ok"
                /\ r.users = users
                /\ r.pool = pool
                /\ r.bal = bal
                /\ WellFormedLeave(a) => r.res \in {"Underflow", "InsufficientFunds"}

\* C2 witness: an overdraw the vault and staked_total could cover because
\* another user holds stake; it failed on the user's own subtraction.
C2_Witness ==
    /\ last.op = "leave_staking" /\ last.res = "Underflow"
    /\ last.amount > users[last.authority].staked_amount
    /\ pool.staked_total >= last.amount
    /\ bal[pool.vault] >= last.amount

ArgsOf(op) ==
    CASE op = "initialize" -> InitializeArgs
      [] op = "airdrop" -> AirDropArgs
      [] op = "initialize_user_state" -> InitializeUserStateArgs
      [] op = "enter_staking" -> EnterStakingArgs
      [] op = "leave_staking" -> LeaveStakingArgs

\* An initialize whose claimed signer or nonce is not the derived pair.
Forged(a) ==
    LET d == find_program_address(a.mint, PoolKey)
    IN  a.program_signer # d.key \/ a.nonce # d.nonce

\* C3 as stated: an initialize with a claimed signer (or nonce) that is not
\* the derived one fails with InvalidProgramSigner and writes nothing.
C3_ForgedIsInvalidProgramSigner ==
    \A a \in InitializeArgs :
        Forged(a) =>
            LET r == Execute("initialize", Cur, a)
            IN  r.res = "InvalidProgramSigner" /\ r.pool = pool

\* C3 amended: an initialize with a claimed signer or nonce that is not the
\* derived one fails and leaves the pool record as it was, for every nonce;
\* the failure is InvalidProgramSigner whenever the account constraints of
\* Initialize hold (zero discriminator, the mint's authorities, the vault's
\* mint and owner), and the failed constraint's error otherwise.
C3_ForgedIsRejected ==
    \A a \in InitializeArgs :
        Forged(a) =>
            LET r == Execute("initialize", Cur, a)
            IN  /\ r.res # "Ok"
                /\ r.pool = pool
                /\ r.cpi = <<>>
                /\ Initialize(Cur, a) = "Ok" => r.res = "InvalidProgramSigner"
                /\ Initialize(Cur, a) # "Ok" => r.res = Initialize(Cur, a)

\* C3 witness: an initialize presenting a signer other than the derived one
\* passed the account constraints and failed with InvalidProgramSigner.
C3_Witness ==
    /\ last.op = "initialize" /\ last.res = "InvalidProgramSigner"
    /\ last.program_signer = Foreign
    /\ pool = ZeroedPool

\* The authority the pool's seeds reproduce: at initialize the one derived
\* from the presented mint, afterwards the one of the recorded mint and nonce.
DerivedAuthority(op, a) ==
    IF op = "initialize"
    THEN find_program_address(a.mint, PoolKey).key
    ELSE create_program_address(pool.mint, PoolKey, pool.nonce)

\* C4: an initialize, airdrop or leave_staking that presents a program_signer
\* other than the derived authority is rejected by the program's own
\* comparison: it does not succeed and hands no instruction to the ledger.
C4_SignerIsChecked ==
    \A op \in {"initialize", "airdrop", "leave_staking"} :
        \A a \in ArgsOf(op) :
            a.program_signer # DerivedAuthority(op, a) =>
                LET r == Invoke(op, Cur, a)
                IN  r.res # "Ok" /\ r.cpi = <<>>

\* C5: a failed enter_staking or leave_staking leaves staked_total and every
\* staked_amount as they were, and no instruction moves one of the two
\* counters without the other.
C5_FailureChangesNoCounter ==
    \A op \in {"enter_staking", "leave_staking"} :
        \A a \in ArgsOf(op) :
            \A r \in {Execute(op, Cur, a)} :
                /\ r.res # "Ok" =>
                    /\ r.pool.staked_total = pool.staked_total
                    /\ \A u \in Users :
                           r.users[u].staked_amount = users[u].staked_amount
                /\ (r.pool.staked_total # pool.staked_total) <=>
                       (r.users[a.authority].staked_amount
                            # users[a.authority].staked_amount)

\* C5 witness: an instruction failed after its ledger transfer had succeeded
\* and the handler had already assigned the pool's counter.
C5_Witness ==
    /\ last.op \in {"enter_staking", "leave_staking"}
    /\ last.res \notin {"Ok", "none"}
    /\ Len(last.cpi) = 1 /\ last.cpi[1].res = "Ok"

StakingOps == {"enter_staking", "leave_staking"}

\* C6 as stated: enter_staking(0) and leave_staking(0) fail with ZeroAmount
\* in every state, issue no ledger instruction and change nothing.
C6_ZeroIsZeroAmount ==
    \A op \in StakingOps :
        \A a \in ArgsOf(op) :
            a.amount = 0 =>
                LET r == Execute(op, Cur, a)
                IN  r.res = "ZeroAmount" /\ r.cpi = <<>> /\ StateOf(r) = Cur

\* C6 amended: enter_staking(0) and leave_staking(0) fail in every state,
\* issue no ledger instruction and leave the pool, every user record and
\* every balance unchanged; the failure is ZeroAmount whenever the
\* instruction's account validation passes, before the mint, vault and
\* initialized checks, and the account validation's error otherwise.
C6_ZeroIsRejected ==
    \A op \in StakingOps :
        \A a \in ArgsOf(op) :
            a.amount = 0 =>
                \A r \in {Execute(op, Cur, a)} :
                \A v \in {Validate(op, Cur, a)} :
                    /\ r.res # "Ok"
                    /\ r.cpi = <<>>
                    /\ StateOf(r) = Cur
                    /\ v = "Ok" => r.res = "ZeroAmount"
                    /\ v # "Ok" => r.res = v

\* C6 witness: a zero-amount enter_staking of a staking user was rejected
\* with ZeroAmount.
C6_Witness ==
    /\ last.op = "enter_staking" /\ last.amount = 0 /\ last.res = "ZeroAmount"
    /\ last.cpi = <<>>
    /\ users[last.authority].staked_amount > 0

\* C7 as stated: with a matching mint and vault, a positive enter_staking or
\* leave_staking of a user that never ran initialize_user_state fails with
\* UserNotInitialized, transfers nothing and changes nothing.
C7_UninitIsUserNotInitialized ==
    \A op \in StakingOps :
        \A a \in ArgsOf(op) :
            (a.amount > 0 /\ ~users[a.authority].exists
             /\ a.mint = pool.mint /\ a.vault = pool.vault) =>
                LET r == Execute(op, Cur, a)
                IN  r.res = "UserNotInitialized" /\ r.cpi = <<>> /\ StateOf(r) = Cur

\* C7 amended: a positive enter_staking or leave_staking of a user that
\* never ran initialize_user_state fails when its UserState account is
\* loaded, with AccountNotInitialized on a pool that carries its
\* discriminator, whatever mint and vault are presented; it issues no
\* ledger transfer and changes nothing.  No UserState account exists with
\* initialized false and no instruction ends in UserNotInitialized.
C7_UninitIsRejected ==
    /\ \A u \in Users : users[u].exists => users[u].initialized
    /\ \A op \in StakingOps :
           \A a \in ArgsOf(op) :
               \A r \in {Execute(op, Cur, a)} :
                   /\ r.res # "UserNotInitialized"
                   /\ (a.amount > 0 /\ ~users[a.authority].exists) =>
                          /\ r.res = IF pool.disc = "Pool"
                                     THEN "AccountNotInitialized"
                                     ELSE "AccountDiscriminatorMismatch"
                          /\ r.cpi = <<>>
                          /\ StateOf(r) = Cur

\* C7 witness: on an initialized pool, a positive enter_staking of a user
\* without a UserState account ended in AccountNotInitialized.
C7_Witness ==
    /\ last.op = "enter_staking" /\ last.amount > 0
    /\ last.res = "AccountNotInitialized"
    /\ ~users[last.authority].exists
    /\ pool.disc = "Pool"

\* C8: initialize_user_state for a user whose UserState account exists fails
\* and leaves that record, nonzero staked_amount included, as it was.
C8_SecondInitializeUserFails ==
    \A a \in InitializeUserStateArgs :
        users[a.authority].exists =>
            LET r == Execute("initialize_user_state", Cur, a)
            IN  r.res # "Ok" /\ r.users = users /\ r.pool = pool

\* C8 witness: a user holding stake ran initialize_user_state again; it
\* failed and the stake is still there.
C8_Witness ==
    /\ last.op = "initialize_user_state" /\ last.res = "AccountAlreadyInUse"
    /\ users[last.authority].staked_amount > 0

\* C9: from every reachable state, a successful enter_staking(a) followed by
\* leave_staking(a) of the same user, with the accounts the pool records:
\* the leave_staking succeeds and both counters are back at their values
\* before the two (0 for a freshly initialized user).
C9_RoundTrip ==
    /\ \A a \in EnterStakingArgs :
           LET r1 == Execute("enter_staking", Cur, a)
               l == [a EXCEPT !.program_signer = pool.program_signer]
               r2 == Execute("leave_staking", StateOf(r1), l)
           IN  r1.res = "Ok" =>
                   /\ r2.res = "Ok"
                   /\ r2.pool.staked_total = pool.staked_total
                   /\ r2.users[a.authority].staked_amount
                          = users[a.authority].staked_amount
    /\ rt.phase = "left" =>
           /\ pool.staked_total = rt.staked_total
           /\ users[rt.authority].staked_amount = rt.staked_amount

\* C9 witness: a freshly initialized user entered and left with the same
\* amount while another user's stake stayed in the pool.
C9_Witness ==
    /\ rt.phase = "left" /\ rt.staked_amount = 0 /\ rt.amount > 0
    /\ users[rt.authority].staked_amount = 0
    /\ pool.staked_total = rt.staked_total
    /\ pool.staked_total > 0

FirstViolated(a) ==
    IF a.amount = 0 THEN "ZeroAmount"
    ELSE IF a.mint # pool.mint THEN "InvalidMint"
    ELSE IF a.vault # pool.vault THEN "InvalidVault"
    ELSE IF ~users[a.authority].initialized THEN "UserNotInitialized"
    ELSE "Ok"

\* C11 as stated: on an initialized pool, an enter_staking or leave_staking
\* that violates one or more of the four preconditions ends in the error of
\* the first violated one, in the order ZeroAmount, InvalidMint,
\* InvalidVault, UserNotInitialized.
C11_FirstViolatedIsReported ==
    \A op \in StakingOps :
        \A a \in ArgsOf(op) :
            (pool.disc = "Pool" /\ FirstViolated(a) # "Ok") =>
                Execute(op, Cur, a).res = FirstViolated(a)

\* C11 amended: an enter_staking or leave_staking whose account validation
\* passes and that violates one or more of the preconditions amount > 0,
\* mint match, vault match ends in the error of the first violated one, in
\* the order ZeroAmount, InvalidMint, InvalidVault, and issues no ledger
\* instruction; when the account validation fails, its error is reported
\* ahead of all of them.  UserNotInitialized is never the first violated
\* precondition of an invocation that passes account validation.
C11_FirstViolatedAfterValidation ==
    \A op \in StakingOps :
        \A a \in ArgsOf(op) :
            \A r \in {Execute(op, Cur, a)} :
            \A v \in {Validate(op, Cur, a)} :
                /\ v # "Ok" => r.res = v /\ r.cpi = <<>>
                /\ v = "Ok" => FirstViolated(a) # "UserNotInitialized"
                /\ (v = "Ok" /\ FirstViolated(a) # "Ok") =>
                       r.res = FirstViolated(a) /\ r.cpi = <<>>

\* C11 witness: a leave_staking ended in ZeroAmount in a state where the
\* same caller's zero-amount invocation with a mint and a vault other than
\* the pool's passes account validation and ends in ZeroAmount as well.
C11_Witness ==
    /\ last.op = "leave_staking" /\ last.res = "ZeroAmount" /\ last.amount = 0
    /\ \E a \in LeaveStakingArgs :
           /\ a.authority = last.authority /\ a.amount = 0
           /\ a.mint # pool.mint /\ a.vault # pool.vault
           /\ LeaveStaking(Cur, a) = "Ok"
           /\ Execute("leave_staking", Cur, a).res = "ZeroAmount"

\* An airdrop whose accounts are the ones the pool records and whose
\* destination is the caller's account of the pool's mint.
WellFormedAirDrop(a) ==
    /\ a.mint = pool.mint
    /\ a.program_signer = pool.program_signer
    /\ a.user_mint_acc = UserAcc(a.authority)

\* C12: an airdrop, succeeding or failing and for every amount, leaves the
\* pool record and every user record as they were, also before the runtime
\* commits or rolls back; it never ends in ZeroAmount, and with amount 0 and
\* the pool's accounts it succeeds; when it succeeds the balances differ
\* from the ones before by amount more on the destination account, and when
\* it fails no balance differs.
C12_AirDropFrame ==
    \A a \in AirDropArgs :
        \A r \in {Execute("airdrop", Cur, a)} :
        \A h \in {Invoke("airdrop", Cur, a)} :
            /\ r.pool = pool /\ r.users = users
            /\ h.pool = pool /\ h.users = users
            /\ r.res # "ZeroAmount"
            /\ (pool.disc = "Pool" /\ WellFormedAirDrop(a) /\ a.amount = 0) =>
                   r.res = "Ok"
            /\ r.res = "Ok" =>
                   r.bal = [bal EXCEPT ![a.user_mint_acc] = @ + a.amount]
            /\ r.res # "Ok" => r.bal = bal

\* C12 witness: an airdrop of amount 0 succeeded, with one ledger mint
\* issued, on a pool that holds stake.
C12_Witness ==
    /\ last.op = "airdrop" /\ last.res = "Ok" /\ last.amount = 0
    /\ Len(last.cpi) = 1 /\ last.cpi[1].instr = "mint_to"
    /\ pool.staked_total > 0
    /\ \E u \in Users : users[u].staked_amount > 0

\* The three preconditions of airdrop against the pool record.
AirDropMintOk(a) == a.mint = pool.mint

AirDropSignerOk(a) == a.program_signer = pool.program_signer

AirDropDestinationOk(a) == TokenMint(a.user_mint_acc) = pool.mint

\* C13 as stated: on an initialized pool, an airdrop that violates exactly
\* one of the three preconditions fails with that precondition's error
\* (InvalidMint, InvalidProgramSigner, InvalidUserMintAccount) and issues no
\* ledger mint; a ledger mint is issued only when all three hold.
C13_AirDropErrors ==
    \A a \in AirDropArgs :
        LET r == Execute("airdrop", Cur, a)
        IN  pool.disc = "Pool" =>
              /\ (~AirDropMintOk(a) /\ AirDropSignerOk(a) /\ AirDropDestinationOk(a))
                     => r.res = "InvalidMint" /\ r.cpi = <<>>
              /\ (AirDropMintOk(a) /\ ~AirDropSignerOk(a) /\ AirDropDestinationOk(a))
                     => r.res = "InvalidProgramSigner" /\ r.cpi = <<>>
              /\ (AirDropMintOk(a) /\ AirDropSignerOk(a) /\ ~AirDropDestinationOk(a))
                     => r.res = "InvalidUserMintAccount" /\ r.cpi = <<>>
              /\ r.cpi # <<>> =>
                     AirDropMintOk(a) /\ AirDropSignerOk(a) /\ AirDropDestinationOk(a)

\* C13 amended: the account validation of AirDrop runs first (pool
\* discriminator, destination owned by the caller) and its error is the
\* one reported; when it passes, the airdrop fails with InvalidMint when the
\* presented mint differs from pool.mint, else with InvalidProgramSigner
\* when the presented signer differs from pool.program_signer, else with
\* InvalidUserMintAccount when the destination's mint differs from
\* pool.mint; in all these cases no ledger mint is issued, and one is
\* issued exactly when the validation passes and all three hold.
C13_AirDropErrorsAfterValidation ==
    \A a \in AirDropArgs :
        \A r \in {Execute("airdrop", Cur, a)} :
        \A v \in {AirDrop(Cur, a)} :
            /\ v # "Ok" => r.res = v /\ r.cpi = <<>>
            /\ (v = "Ok" /\ ~AirDropMintOk(a))
                   => r.res = "InvalidMint" /\ r.cpi = <<>>
            /\ (v = "Ok" /\ AirDropMintOk(a) /\ ~AirDropSignerOk(a))
                   => r.res = "InvalidProgramSigner" /\ r.cpi = <<>>
            /\ (v = "Ok" /\ AirDropMintOk(a) /\ AirDropSignerOk(a)
                 /\ ~AirDropDestinationOk(a))
                   => r.res = "InvalidUserMintAccount" /\ r.cpi = <<>>
            /\ r.cpi # <<>> <=>
                   /\ pool.disc = "Pool" /\ v = "Ok"
                   /\ AirDropMintOk(a) /\ AirDropSignerOk(a)
                   /\ AirDropDestinationOk(a)

\* C13 witness: an airdrop presenting the pool's signer failed with
\* InvalidUserMintAccount without a ledger mint, and no balance moved.
C13_Witness ==
    /\ last.op = "airdrop" /\ last.res = "InvalidUserMintAccount"
    /\ last.program_signer = pool.program_signer
    /\ last.cpi = <<>>
    /\ last.amount > 0
    /\ \A acc \in TokenAccounts : bal[acc] = 0

PoolReaders == {"airdrop", "enter_staking", "leave_staking"}

\* The current accounts with the pool record's marker replaced by m: a Pool
\* record as a build with another INIT_MAGIC_NUMBER would have written it.
WithMagic(m) == [Cur EXCEPT !.pool.magic = m]

StakingRuns(u) ==
    {[op |-> "enter_staking", a |-> a, r |-> Execute("enter_staking", Cur, a)] :
        a \in {x \in EnterStakingArgs : x.authority = u}}
    \cup {[op |-> "leave_staking", a |-> a, r |-> Execute("leave_staking", Cur, a)] :
             a \in {x \in LeaveStakingArgs : x.authority = u}}

\* The runs that changed an account.
Effective(runs) == {x \in runs : StateOf(x.r) # Cur}

\* Invocation y run after invocation x; from the current state again when
\* x changed nothing.
RunAfter(x, y) ==
    IF StateOf(x.r) = Cur THEN y.r ELSE Execute(y.op, StateOf(x.r), y.a)

\* Run x and then y against y and then x: the errors agree and so do the
\* accounts at the end.
SameInBothOrders(x, y) ==
    \A xy \in {RunAfter(x, y)} :
        \A yx \in {RunAfter(y, x)} :
            /\ xy.res = y.r.res
            /\ yx.res = x.r.res
            /\ StateOf(xy) = StateOf(yx)

\* As SameInBothOrders, with the errors of two failures allowed to differ
\* when both are failures of a leave_staking that issued its transfer.
SameOutcomeInBothOrders(x, y) ==
    LET Agree(c, first, second) ==
            \/ first.res = second.res
            \/ /\ c.op = "leave_staking"
               /\ first.res # "Ok" /\ second.res # "Ok"
               /\ first.cpi # <<>> /\ second.cpi # <<>>
    IN  \A xy \in {RunAfter(x, y)} :
            \A yx \in {RunAfter(y, x)} :
                /\ Agree(y, y.r, xy)
                /\ Agree(x, x.r, yx)
                /\ StateOf(xy) = StateOf(yx)

\* C15 as stated: any two enter_staking/leave_staking invocations of two
\* distinct users end, in both orders, with the same result each (Ok or the
\* same error) and in the same pool record, user records and balances.
\* (Two invocations that both change nothing run from the same accounts in
\* both orders; the pairs compared are those with an effective member.)
C15_OrderIndependent ==
    \A R1 \in {StakingRuns("u1")} :
        \A R2 \in {StakingRuns("u2")} :
            /\ \A x \in Effective(R1) : \A y \in R2 : SameInBothOrders(x, y)
            /\ \A y \in Effective(R2) : \A x \in R1 : SameInBothOrders(x, y)

\* C15 amended: any two enter_staking/leave_staking invocations of two
\* distinct users end, in both orders, with the same outcome each (Ok in
\* both or an error in both) and in the same pool record, user records and
\* balances; the error is the same in both orders except for a
\* leave_staking that reaches its ledger transfer and fails, whose error
\* (InsufficientFunds, OwnerMismatch, Underflow) depends on what the vault
\* holds when it runs.
C15_OutcomeOrderIndependent ==
    \A R1 \in {StakingRuns("u1")} :
        \A R2 \in {StakingRuns("u2")} :
            /\ \A x \in Effective(R1) : \A y \in R2 : SameOutcomeInBothOrders(x, y)
            /\ \A y \in Effective(R2) : \A x \in R1 : SameOutcomeInBothOrders(x, y)

\* C15 witness: after a successful leave_staking, an enter_staking of u1
\* and a leave_staking of u2 that each succeed whichever runs first.
C15_Witness ==
    /\ last.op = "leave_staking" /\ last.res = "Ok"
    /\ \E x \in Effective(StakingRuns("u1")) :
           \E y \in Effective(StakingRuns("u2")) :
               /\ x.op = "enter_staking" /\ y.op = "leave_staking"
               /\ RunAfter(x, y).res = "Ok" /\ RunAfter(y, x).res = "Ok"
               /\ StateOf(RunAfter(x, y)) = StateOf(RunAfter(y, x))

\* What a step does to the pool record, by the state it starts in: an
\* uninitialized record stays as it is or becomes initialized by a
\* successful initialize; an initialized record rejects every initialize,
\* stays initialized and keeps its marker, mint, vault, program_signer and
\* nonce; an initialize on it leaves staked_total alone.
PoolStep ==
    /\ pool.disc = "zero" =>
           \/ pool' = pool
           \/ /\ last'.op = "initialize" /\ last'.res = "Ok"
              /\ pool'.disc = "Pool"
    /\ pool.disc = "Pool" =>
           /\ pool'.disc = "Pool"
           /\ pool'.magic = pool.magic
           /\ pool'.mint = pool.mint
           /\ pool'.vault = pool.vault
           /\ pool'.program_signer = pool.program_signer
           /\ pool'.nonce = pool.nonce
           /\ last'.op = "initialize" =>
                  /\ last'.res # "Ok"
                  /\ pool' = pool
                  /\ pool'.staked_total = pool.staked_total

\* C16: the pool record's only transition is uninitialized to initialized:
\* once an initialize has succeeded every later initialize fails, the mint,
\* vault, program_signer and nonce stay the ones it wrote, and no initialize
\* resets staked_total.
C16_InitializeOnce == [][PoolStep]_vars

\* C16 witness: an initialize was rejected on an initialized pool that
\* holds stake, and the stake is still counted.
C16_Witness ==
    /\ last.op = "initialize" /\ last.res = "ConstraintZero"
    /\ pool.disc = "Pool" /\ pool.mint = "M1" /\ pool.vault = "V1"
    /\ pool.staked_total > 0

\* The require! checks of a staking handler.
Require(op, S, a) ==
    IF op = "enter_staking" THEN enter_staking_require(S, a)
    ELSE leave_staking_require(S, a)

\* C17: within one enter_staking or leave_staking, as the handler leaves
\* the accounts (before the runtime commits or rolls back): a transfer is
\* requested at most once and only after the account validation and all
\* four precondition checks passed, so an invocation failing one of them
\* issues none; and a counter differs from its value before the invocation
\* only if the transfer was requested and succeeded.
C17_ChecksThenTransferThenCounters ==
    \A op \in StakingOps :
        \A a \in ArgsOf(op) :
            \A h \in {Invoke(op, Cur, a)} :
                \A passed \in {Validate(op, Cur, a) = "Ok"
                                /\ Require(op, Cur, a) = "Ok"} :
                    /\ Len(h.cpi) <= 1
                    /\ ~passed => h.res # "Ok" /\ h.cpi = <<>> /\ StateOf(h) = Cur
                    /\ passed => Len(h.cpi) = 1 /\ h.cpi[1].instr = "transfer"
                    /\ (h.pool # pool \/ h.users # users) =>
                           Len(h.cpi) = 1 /\ h.cpi[1].res = "Ok"
                    /\ (h.cpi # <<>> /\ h.cpi[1].res # "Ok") =>
                           h.res = h.cpi[1].res /\ StateOf(h) = Cur

\* C17 witness: a leave_staking of a user holding stake passed its checks,
\* requested the transfer, the ledger refused it, and the counters are the
\* ones from before.
C17_Witness ==
    /\ last.op = "leave_staking"
    /\ Len(last.cpi) = 1 /\ last.cpi[1].instr = "transfer"
    /\ last.cpi[1].res = "InsufficientFunds" /\ last.res = "InsufficientFunds"
    /\ users[last.authority].staked_amount > 0
    /\ pool.staked_total = SumStaked(users, Users)

\* The signer seeds an airdrop or leave_staking hands to the ledger call.
SeedsOf(op, S, a) ==
    IF op = "airdrop" THEN airdrop_seeds(S, a) ELSE leave_staking_seeds(S, a)

\* C18: in every airdrop and leave_staking that reaches its ledger call,
\* the seeds handed over are the recorded mint, the pool's key and the
\* recorded nonce, the pair find_program_address yields for them is the
\* recorded program_signer and nonce, and the address the seeds reproduce
\* is the recorded program_signer; in leave_staking the seeds' mint is the
\* presented one, which by then has been compared with the recorded one.
C18_SeedsAreThePoolsOwn ==
    \A op \in {"airdrop", "leave_staking"} :
        \A a \in ArgsOf(op) :
            \A h \in {Invoke(op, Cur, a)} :
            \A sd \in {SeedsOf(op, Cur, a)} :
                h.cpi # <<>> =>
                    /\ sd = [mint |-> pool.mint, pool |-> PoolKey, nonce |-> pool.nonce]
                    /\ create_program_address(sd.mint, sd.pool, sd.nonce)
                           = pool.program_signer
                    /\ find_program_address(pool.mint, PoolKey)
                           = [key |-> pool.program_signer, nonce |-> pool.nonce]

\* C18 witness: a leave_staking went through with the recorded
\* program_signer as the transfer's authority, the address its seeds
\* reproduce.
C18_Witness ==
    /\ last.op = "leave_staking" /\ last.res = "Ok"
    /\ Len(last.cpi) = 1 /\ last.cpi[1].authority = pool.program_signer
    /\ create_program_address(pool.mint, PoolKey, pool.nonce) = pool.program_signer

\* C19: on an initialized pool the vault holds at least staked_total (and
\* exactly staked_total, enter_staking being the only way tokens reach the
\* vault here); a leave_staking of a positive amount up to the caller's
\* staked_amount never fails with InsufficientFunds, and with the pool's
\* accounts it succeeds; an airdrop whose destination is a vault is
\* rejected before any ledger mint, whoever calls it.
C19_Solvency ==
    /\ pool.disc = "Pool" =>
           /\ bal[pool.vault] >= pool.staked_total
           /\ bal[pool.vault] = pool.staked_total
    /\ \A a \in LeaveStakingArgs :
           (a.amount > 0 /\ a.amount <= users[a.authority].staked_amount) =>
               \A r \in {Execute("leave_staking", Cur, a)} :
                   /\ r.res # "InsufficientFunds"
                   /\ WellFormedLeave(a) => r.res = "Ok"
    /\ \A a \in AirDropArgs :
           \A vault \in Vaults :
               \A r \in {Execute("airdrop", Cur, [a EXCEPT !.user_mint_acc = vault])} :
                   r.res # "Ok" /\ r.cpi = <<>> /\ r.bal = bal

\* C19 witness: a leave_staking of a user's whole stake succeeded while the
\* vault still holds the other user's stake, token for token.
C19_Witness ==
    /\ last.op = "leave_staking" /\ last.res = "Ok"
    /\ users[last.authority].staked_amount = 0
    /\ pool.staked_total > 0
    /\ bal[pool.vault] = pool.staked_total

\* C20: every user's staked_amount is at most staked_total, which on an
\* initialized pool is at most the vault's balance, itself within the
\* ledger's width; so in an enter_staking whose transfer succeeded both
\* checked additions succeed: the handler never ends in Overflow with the
\* pool's counter already incremented, nor with any counter changed.
C20_AddsNeverOverflow ==
    /\ \A u \in Users : users[u].staked_amount <= pool.staked_total
    /\ pool.staked_total <= U64_MAX
    /\ pool.disc = "Pool" =>
           /\ pool.staked_total <= bal[pool.vault]
           /\ bal[pool.vault] <= Supply(bal, pool.mint)
           /\ Supply(bal, pool.mint) <= U64_MAX
    /\ \A a \in EnterStakingArgs :
           \A h \in {Invoke("enter_staking", Cur, a)} :
               (h.cpi # <<>> /\ h.cpi[1].res = "Ok") =>
                   /\ h.res = "Ok"
                   /\ h.pool.staked_total = pool.staked_total + a.amount
                   /\ h.users[a.authority].staked_amount
                          = users[a.authority].staked_amount + a.amount

\* C20 witness: an enter_staking succeeded and brought staked_total, and
\* the vault with it, to the largest amount the ledger can hold.
C20_Witness ==
    /\ last.op = "enter_staking" /\ last.res = "Ok"
    /\ pool.staked_total = U64_MAX
    /\ bal[pool.vault] = U64_MAX
    /\ users[last.authority].staked_amount <= pool.staked_total

====
